---- MODULE Spec2Model ----
(***************************************************************************)
(* Model of the investment-dashboard back end: the allocation (position)   *)
(* ledger and its create / update / close handlers, the position valuator, *)
(* the portfolio return calculator, the net-new-money aggregator, the      *)
(* top-advisors rollup, the price tasks with the price history, the soft   *)
(* delete of a client and the live-price socket registry.                  *)
(*                                                                         *)
(* Numbers.  Quantities and prices (Numeric(15,4) / Numeric(12,4) columns) *)
(* are integers counting hundredths; the model draws inputs with at most   *)
(* two decimals, which those columns store unchanged.  Money amounts are   *)
(* integers counting ten-thousandths, so that the product of a quantity    *)
(* and a price is exact.  A Numeric(x,2) column keeps two decimals: Round2 *)
(* is what storing into it does.  A nullable value is <<>> (None) or <<v>>.*)
(* Dates are day numbers of a year that starts on a Monday with a 31-day   *)
(* first month (2024); the time of day is not modelled.                    *)
(***************************************************************************)
EXTENDS Integers, Sequences, FiniteSets, TLC

VARIABLES allocations, assets, sess, call, result,
          clients_table, daily_returns_table, clock, active_connections, websockets

vars == <<allocations, assets, sess, call, result,
          clients_table, daily_returns_table, clock, active_connections, websockets>>

(* the arguments and the value of a call of one of the calculations *)
calc == <<call, result>>

ledger == <<allocations, assets, sess>>

(* the price history table and the time *)
market == <<daily_returns_table, clock>>

(* the ConnectionManager and the sockets of the clients *)
registry == <<active_connections, websockets>>

(* what the ledger handlers and the calculations leave alone *)
others == <<clients_table, market, registry>>

None == <<>>

Some(v) == <<v>>

Val(o) == o[1]

(***************************************************************************)
(* Bounds of the model.                                                    *)
(***************************************************************************)
(* allocations a ledger holds at most, under each specification *)
MaxRows == 1

MaxValuedRows == 1

(* the requests in flight at a time: the races of the handlers need two *)
Workers == {1, 2}

(* Asset 1 and client 1 exist; id 2 is an id no row has. *)
ASSET_IDS == {1}

CLIENT_IDS == {1}

(***************************************************************************)
(* Storage                                                                 *)
(***************************************************************************)

(* Numeric(15,2): the database rounds to two decimals, half away from zero *)
Round2(x) ==
    LET a == IF x < 0 THEN -x ELSE x
        r == ((a + 50) \div 100) * 100
    IN  IF x < 0 THEN -r ELSE r

MoneyColumns == {"total_invested", "fees", "exit_fees"}

NullableMoneyColumns == {"unrealized_gain_loss", "realized_gain_loss"}

(* the rational n / d in lowest terms, as <<numerator, denominator>> *)
RECURSIVE GCD(_, _)
GCD(a, b) == IF b = 0 THEN a ELSE GCD(b, a % b)

Abs(x) == IF x < 0 THEN -x ELSE x

Rat(n, d) ==
    LET g == GCD(Abs(n), Abs(d))
        sgn == IF d < 0 THEN -1 ELSE 1
    IN  <<sgn * (n \div g), sgn * (d \div g)>>

(* Numeric(8,4): the quotient n / d (d > 0) rounded to four decimals, half *)
(* away from zero, counted in units of 0.0001 (Store keeps the column as   *)
(* the rational of that many ten-thousandths)                              *)
Numeric84(n, d) ==
    LET a == IF n < 0 THEN -n ELSE n
        whole == a \div d
        x5 == LET step[k \in 0..5] ==
                      IF k = 0 THEN <<0, a % d>>
                      ELSE <<step[k - 1][1] * 10 + (step[k - 1][2] * 10) \div d,
                             (step[k - 1][2] * 10) % d>>
              IN  step[5][1]
        r == whole * 10000 + (x5 + 5) \div 10
    IN  IF n < 0 THEN -r ELSE r

(* a value of more than four digits before the point does not fit the      *)
(* column: the statement fails with a numeric field overflow               *)
Fits84(n, d) == (IF n < 0 THEN -n ELSE n) \div d < 10000

(* the Numeric(8,4) columns of Allocation and of Asset *)
PercentColumns == {"unrealized_gain_loss_percent", "daily_change_percent"}

(* The value a column holds after v is written to it. *)
Store(c, v) ==
    IF c \in MoneyColumns THEN Round2(v)
    ELSE IF c \in NullableMoneyColumns /\ v # None THEN Some(Round2(Val(v)))
    ELSE IF c \in PercentColumns /\ v # None
         THEN Some(Rat(Numeric84(Val(v)[1], Val(v)[2]), 10000))
    ELSE v

(* Session.flush: the UPDATE carries the attributes whose value differs    *)
(* from the loaded one; the other columns of the row are left as they are. *)
Flush(row, loaded, obj) ==
    [c \in DOMAIN row |-> IF obj[c] # loaded[c] THEN Store(c, obj[c]) ELSE row[c]]

(***************************************************************************)
(* Allocation model                                                        *)
(***************************************************************************)

(* Allocation(...): the column defaults of a new row *)
NewAllocation(data, total_invested) ==
    [ client_id      |-> data.client_id,
      asset_id       |-> data.asset_id,
      quantity       |-> data.quantity,
      purchase_price |-> data.purchase_price,
      purchase_date  |-> data.purchase_date,
      total_invested |-> total_invested,
      fees           |-> IF data.fees = None THEN 0 ELSE Val(data.fees),
      is_active      |-> TRUE,
      exit_price     |-> None,
      exit_date      |-> None,
      exit_fees      |-> 0,
      last_price_check             |-> None,
      unrealized_gain_loss         |-> None,
      unrealized_gain_loss_percent |-> None,
      realized_gain_loss           |-> None ]

StoreRow(obj) == [c \in DOMAIN obj |-> Store(c, obj[c])]

(* total_cost without the fees *)
total_cost_without_fees(self) == self.total_invested

total_cost(self) == self.total_invested + self.fees

(* `x or default` of Python on an optional number: None and 0 are falsy *)
OrElse(o, default) == IF o = None \/ o = Some(0) THEN default ELSE Val(o)

(* close_position that also sets the quantity of the closed position to 0 *)
close_position_zeroes_quantity(self, exit_price, exit_date, exit_fees, now) ==
    LET fees_out   == OrElse(exit_fees, 0)
        exit_value == self.quantity * exit_price
        total_costs == total_cost(self) + fees_out
    IN  [self EXCEPT !.is_active = FALSE,
                     !.quantity = 0,
                     !.exit_price = Some(exit_price),
                     !.exit_date = IF exit_date = None THEN Some(now) ELSE exit_date,
                     !.exit_fees = fees_out,
                     !.realized_gain_loss = Some(exit_value - total_costs),
                     !.unrealized_gain_loss = None,
                     !.unrealized_gain_loss_percent = None]

(* close_position storing the exit_date as given, None when it is omitted *)
close_position_no_default_date(self, exit_price, exit_date, exit_fees, now) ==
    LET fees_out   == OrElse(exit_fees, 0)
        exit_value == self.quantity * exit_price
        total_costs == total_cost(self) + fees_out
    IN  [self EXCEPT !.is_active = FALSE,
                     !.exit_price = Some(exit_price),
                     !.exit_date = exit_date,
                     !.exit_fees = fees_out,
                     !.realized_gain_loss = Some(exit_value - total_costs),
                     !.unrealized_gain_loss = None,
                     !.unrealized_gain_loss_percent = None]

(* close_position leaving the exit fees out of the costs *)
close_position_without_exit_fees(self, exit_price, exit_date, exit_fees, now) ==
    LET fees_out   == OrElse(exit_fees, 0)
        exit_value == self.quantity * exit_price
    IN  [self EXCEPT !.is_active = FALSE,
                     !.exit_price = Some(exit_price),
                     !.exit_date = IF exit_date = None THEN Some(now) ELSE exit_date,
                     !.exit_fees = fees_out,
                     !.realized_gain_loss = Some(exit_value - total_cost(self)),
                     !.unrealized_gain_loss = None,
                     !.unrealized_gain_loss_percent = None]

close_position(self, exit_price, exit_date, exit_fees, now) ==
    LET fees_out   == OrElse(exit_fees, 0)
        exit_value == self.quantity * exit_price
        total_costs == total_cost(self) + fees_out
    IN  [self EXCEPT !.is_active = FALSE,
                     !.exit_price = Some(exit_price),
                     !.exit_date = IF exit_date = None THEN Some(now) ELSE exit_date,
                     !.exit_fees = fees_out,
                     !.realized_gain_loss = Some(exit_value - total_costs),
                     !.unrealized_gain_loss = None,
                     !.unrealized_gain_loss_percent = None]

(* Allocation.update_performance; the percentage is an exact rational      *)
(* until it is stored                                                      *)
update_performance(self, current_price, now) ==
    LET value == self.quantity * current_price
        gain  == value - total_cost(self)
        set1  == [self EXCEPT !.unrealized_gain_loss = Some(gain)]
        set2  == IF total_cost(self) > 0
                 THEN [set1 EXCEPT !.unrealized_gain_loss_percent =
                                       Some(Rat(gain * 100, total_cost(self)))]
                 ELSE set1
    IN  [set2 EXCEPT !.last_price_check = Some(now)]

(* Allocation.current_value: 0 when the asset has no (or a zero) price *)
current_value(self, asset) ==
    IF asset # None /\ Val(asset).current_price # None
                    /\ Val(asset).current_price # Some(0)
    THEN self.quantity * Val(Val(asset).current_price)
    ELSE 0

gain_loss_amount(self, asset) == current_value(self, asset) - total_cost(self)

(* Allocation.gain_loss_percent, the quotient kept as <<numerator, denominator>> *)
gain_loss_percent(self, asset) ==
    IF total_cost(self) > 0
    THEN <<gain_loss_amount(self, asset) * 100, total_cost(self)>>
    ELSE <<0, 1>>

(* Allocation.asset: the row of the asset the allocation refers to *)
AssetOf(self) ==
    IF self.asset_id \in DOMAIN assets THEN Some(assets[self.asset_id]) ELSE None

(***************************************************************************)
(* Request handlers.  A handler that loads a row runs in two steps: db.get *)
(* with the synchronous body that follows it (which reads and writes only  *)
(* the session's own object), and db.commit with db.refresh.  Other        *)
(* requests run between the two.  sess[w] is the request worker w serves:  *)
(* the row as loaded, the object as the body left it, and, once answered,  *)
(* the status of the response.                                             *)
(***************************************************************************)

Idle(op, id, status) ==
    [pc |-> "idle", op |-> op, id |-> id, status |-> status,
     req |-> None, loaded |-> None, obj |-> None]

Flushing(op, id, req, loaded, obj) ==
    [pc |-> "flushing", op |-> op, id |-> id, status |-> 0,
     req |-> Some(req), loaded |-> Some(loaded), obj |-> Some(obj)]

(* POST /allocations *)
create_allocation(w, data) ==
    /\ sess[w].pc = "idle"
    /\ UNCHANGED <<assets, calc, others>>
    /\ IF data.client_id \notin CLIENT_IDS \/ data.asset_id \notin ASSET_IDS
       THEN /\ sess' = [sess EXCEPT ![w] = Idle("create", 0, 404)]
            /\ UNCHANGED allocations
       ELSE LET total_invested == data.quantity * data.purchase_price
                row == StoreRow(NewAllocation(data, total_invested))
            IN  /\ allocations' = Append(allocations, row)
                /\ sess' = [sess EXCEPT ![w] = Idle("create", Len(allocations) + 1, 200)]

(* the body of update_allocation on the loaded object *)
apply_update(allocation, req) ==
    LET set1 == IF req.quantity = None THEN allocation
                ELSE [allocation EXCEPT !.quantity = Val(req.quantity)]
        set2 == IF req.fees = None THEN set1
                ELSE [set1 EXCEPT !.fees = Val(req.fees)]
    IN  IF (req.quantity # None /\ req.quantity # Some(0)) \/ set2.purchase_price # 0
        THEN [set2 EXCEPT !.total_invested = set2.quantity * set2.purchase_price]
        ELSE set2

(* PUT /allocations/{id}, up to db.commit *)
update_allocation(w, id, req) ==
    /\ sess[w].pc = "idle"
    /\ UNCHANGED <<allocations, assets, calc, others>>
    /\ IF id \notin 1..Len(allocations)
       THEN sess' = [sess EXCEPT ![w] = Idle("update", id, 404)]
       ELSE IF ~allocations[id].is_active
       THEN sess' = [sess EXCEPT ![w] = Idle("update", id, 400)]
       ELSE sess' = [sess EXCEPT ![w] =
                Flushing("update", id, req, allocations[id],
                         apply_update(allocations[id], req))]

(* close_allocation without its guard *)
CloseNeverRejected(allocation) == FALSE

(* the guard of close_allocation: a closed allocation is not closed again *)
CloseRejected(allocation) == ~allocation.is_active

(* POST /allocations/{id}/close, up to db.commit; now is the time of the   *)
(* transaction, which func.now() evaluates to                              *)
close_allocation(w, id, req, now) ==
    /\ sess[w].pc = "idle"
    /\ UNCHANGED <<allocations, assets, calc, others>>
    /\ IF id \notin 1..Len(allocations)
       THEN sess' = [sess EXCEPT ![w] = Idle("close", id, 404)]
       ELSE IF CloseRejected(allocations[id])
       THEN sess' = [sess EXCEPT ![w] = Idle("close", id, 400)]
       ELSE sess' = [sess EXCEPT ![w] =
                Flushing("close", id, req, allocations[id],
                         close_position(allocations[id], req.exit_price,
                                        req.exit_date, Some(req.exit_fees), now))]

(* await db.commit(); await db.refresh(allocation) *)
db_commit(w) ==
    /\ sess[w].pc = "flushing"
    /\ UNCHANGED <<assets, calc, others>>
    /\ LET id == sess[w].id
       IN  /\ allocations' = [allocations EXCEPT ![id] =
                   Flush(allocations[id], Val(sess[w].loaded), Val(sess[w].obj))]
           /\ sess' = [sess EXCEPT ![w] = Idle(sess[w].op, id, 200)]

(* update_all_realtime_prices, for one asset and the price fetched for it *)
(* at time now                                                             *)
update_all_realtime_prices(a, yf_data, now) ==
    /\ UNCHANGED <<allocations, sess, calc, others>>
    /\ yf_data # None
    /\ Val(yf_data) # 0
    /\ yf_data # assets[a].current_price
    /\ assets' = [assets EXCEPT ![a].current_price = yf_data,
                                ![a].last_price_update = Some(now)]

(* an asset whose price columns are all NULL *)
UnpricedAsset ==
    [is_active |-> TRUE, current_price |-> None, previous_close |-> None,
     daily_change |-> None, daily_change_percent |-> None,
     last_price_update |-> None]

InitLedger ==
    /\ allocations = <<>>
    /\ assets = [a \in ASSET_IDS |-> UnpricedAsset]
    /\ sess = [w \in Workers |-> Idle("none", 0, 0)]

(* one active client, no bar, no socket *)
InitOthers ==
    /\ clients_table = [c \in CLIENT_IDS |-> [is_active |-> TRUE]]
    /\ daily_returns_table = <<>>
    /\ clock = 0
    /\ active_connections = <<>>
    /\ websockets = <<>>

Init ==
    /\ InitLedger
    /\ InitOthers
    /\ call = None
    /\ result = None

(***************************************************************************)
(* Spec: the ledger under concurrent requests.                             *)
(***************************************************************************)
CreateInputs ==
    { [client_id |-> 1, asset_id |-> 1, quantity |-> 5000, purchase_price |-> 2000,
       purchase_date |-> 31, fees |-> Some(100000)],
      [client_id |-> 1, asset_id |-> 1, quantity |-> 150, purchase_price |-> 1,
       purchase_date |-> 31, fees |-> None],
      [client_id |-> 1, asset_id |-> 2, quantity |-> 150, purchase_price |-> 1,
       purchase_date |-> 31, fees |-> None] }

(* a field of the body that is not set is None (dict(exclude_unset=True)) *)
UpdateInputs ==
    { [quantity |-> Some(5000), fees |-> None],
      [quantity |-> None, fees |-> Some(0)],
      [quantity |-> None, fees |-> None] }

(* exit_fees is 0 when the body omits it (AllocationClose's default) *)
CloseInputs ==
    { [exit_price |-> 2500, exit_date |-> None, exit_fees |-> 50000],
      [exit_price |-> 1, exit_date |-> Some(36), exit_fees |-> 0] }

Next ==
    \/ \E w \in Workers, data \in CreateInputs :
           Len(allocations) < MaxRows /\ create_allocation(w, data)
    \/ \E w \in Workers, id \in 1..(MaxRows + 1), req \in UpdateInputs :
           update_allocation(w, id, req)
    \/ \E w \in Workers, id \in 1..(MaxRows + 1), req \in CloseInputs :
           close_allocation(w, id, req, 32)
    \/ \E w \in Workers : db_commit(w)

Spec == Init /\ [][Next]_vars

(***************************************************************************)
(* SpecValuation: one request at a time, over more values, with the price  *)
(* refresh of the asset.                                                   *)
(***************************************************************************)
QUANTITIES == {1, 5000}

PURCHASE_PRICES == {1, 2000}

FEES == {None, Some(100000)}

EXIT_PRICES == {1, 2500}

EXIT_FEES == {0, 50000}

PRICES == {None, Some(0), Some(2500)}

CreateValues ==
    [client_id : {1}, asset_id : {1}, quantity : QUANTITIES,
     purchase_price : PURCHASE_PRICES, purchase_date : {31}, fees : FEES]

UpdateValues == [quantity : {None} \cup {Some(q) : q \in QUANTITIES}, fees : FEES]

CloseValues ==
    [exit_price : EXIT_PRICES, exit_date : {None, Some(36)}, exit_fees : EXIT_FEES]

NextValuation ==
    \/ \E data \in CreateValues :
           Len(allocations) < MaxValuedRows /\ create_allocation(1, data)
    \/ \E id \in 1..MaxValuedRows, req \in UpdateValues : update_allocation(1, id, req)
    \/ \E id \in 1..MaxValuedRows, req \in CloseValues : close_allocation(1, id, req, 32)
    \/ db_commit(1)
    \/ \E a \in ASSET_IDS, p \in PRICES : update_all_realtime_prices(a, p, 33)

SpecValuation == Init /\ [][NextValuation]_vars

(***************************************************************************)
(* SpecUpdatePerformance: SpecValuation with calls of update_performance.  *)
(* No handler or task of the program calls the method; here a caller loads *)
(* an allocation, calls it with a price and commits.                       *)
(***************************************************************************)
REFRESH_PRICES == {1, 2500}

update_performance_call(id, current_price, now) ==
    /\ sess[1].pc = "idle"
    /\ id \in 1..Len(allocations)
    /\ LET loaded == allocations[id]
           obj == update_performance(loaded, current_price, now)
           percent == obj.unrealized_gain_loss_percent
       IN  IF percent # None /\ ~Fits84(Val(percent)[1], Val(percent)[2])
           THEN UNCHANGED allocations
           ELSE allocations' = [allocations EXCEPT ![id] = Flush(@, loaded, obj)]
    /\ UNCHANGED <<assets, sess, calc, others>>

NextUpdatePerformance ==
    \/ \E data \in CreateValues :
           Len(allocations) < MaxValuedRows /\ create_allocation(1, data)
    \/ \E id \in 1..MaxValuedRows, req \in UpdateValues : update_allocation(1, id, req)
    \/ \E id \in 1..MaxValuedRows, req \in CloseValues : close_allocation(1, id, req, 32)
    \/ db_commit(1)
    \/ \E a \in ASSET_IDS, p \in PRICES : update_all_realtime_prices(a, p, 33)
    \/ \E id \in 1..MaxValuedRows, p \in REFRESH_PRICES : update_performance_call(id, p, 33)

SpecUpdatePerformance == Init /\ [][NextUpdatePerformance]_vars

(***************************************************************************)
(* Position lifecycle                                                      *)
(***************************************************************************)
Rows == {allocations[i] : i \in 1..Len(allocations)}

IsOpen(r) ==
    /\ r.is_active
    /\ r.exit_price = None
    /\ r.exit_date = None
    /\ r.realized_gain_loss = None

IsClosed(r) ==
    /\ ~r.is_active
    /\ r.exit_price # None
    /\ r.exit_date # None
    /\ r.unrealized_gain_loss = None
    /\ r.unrealized_gain_loss_percent = None
    /\ r.realized_gain_loss # None

(* C1: after any interleaving of create, update and close requests every   *)
(* stored allocation is open (active, no exit price, exit date or realized *)
(* gain) or closed (inactive, exit price, exit date and realized gain set, *)
(* both unrealized fields null), and never a mixture of the two.           *)
C1_OpenOrClosed == \A r \in Rows : IsOpen(r) # IsClosed(r)

(* a closed allocation whose close omitted the exit date, after an update  *)
(* has been served                                                         *)
C1_Witness ==
    /\ \E r \in Rows : IsClosed(r) /\ r.exit_date = Some(32)
    /\ \E w \in Workers : sess[w].op = "update" /\ sess[w].status = 200

(* worker w starts serving a close request on row id in this step *)
StartsClose(w, id) ==
    /\ sess[w].pc = "idle"
    /\ sess'[w] # sess[w]
    /\ sess'[w].op = "close"
    /\ sess'[w].id = id

(* C2: a close request that finds its allocation already closed is         *)
(* answered with an error (400) at once, writes nothing, and leaves the    *)
(* ledger, hence every field the first close set, as it was.               *)
C2_ClosedIsRejected ==
    [][\A w \in Workers : \A id \in 1..Len(allocations) :
          (StartsClose(w, id) /\ ~allocations[id].is_active)
              => /\ sess'[w].pc = "idle"
                 /\ sess'[w].status = 400
                 /\ allocations' = allocations]_vars

(* a close request was rejected on a closed allocation *)
C2_Witness ==
    \E w \in Workers :
        /\ sess[w].pc = "idle" /\ sess[w].op = "close" /\ sess[w].status = 400
        /\ IsClosed(allocations[sess[w].id])

(* C3: a position is terminated exactly once: of the close requests on one *)
(* allocation at most one is answered with success.                        *)
C3_ClosedOnce ==
    \A w1, w2 \in Workers :
        (/\ w1 # w2
         /\ sess[w1].pc = "idle" /\ sess[w1].op = "close" /\ sess[w1].status = 200
         /\ sess[w2].pc = "idle" /\ sess[w2].op = "close" /\ sess[w2].status = 200)
            => sess[w1].id # sess[w2].id

ClosingSessions == {w \in Workers : sess[w].pc = "flushing" /\ sess[w].op = "close"}

(* C4: close_position on an open position leaves realized_gain_loss =      *)
(* quantity * exit_price - (total_invested + fees + exit_fees), exit_fees  *)
(* being 0 when the request omits them.                                    *)
C4_RealizedGainLoss ==
    \A w \in ClosingSessions :
        LET before == Val(sess[w].loaded)
            after  == Val(sess[w].obj)
            req    == Val(sess[w].req)
        IN  after.realized_gain_loss =
                Some(before.quantity * req.exit_price
                     - (before.total_invested + before.fees + req.exit_fees))

(* quantity 50, total_invested 1000, fees 10, exit_price 25, exit_fees 5   *)
(* gives 235                                                               *)
C4_Witness ==
    \E w \in ClosingSessions :
        /\ Val(sess[w].loaded).quantity = 5000
        /\ Val(sess[w].loaded).total_invested = 10000000
        /\ Val(sess[w].loaded).fees = 100000
        /\ Val(sess[w].req).exit_price = 2500
        /\ Val(sess[w].req).exit_fees = 50000
        /\ Val(sess[w].obj).realized_gain_loss = Some(2350000)

(* worker w commits a request of kind op on row id in this step *)
Commits(w, op, id) ==
    /\ sess[w].pc = "flushing"
    /\ sess[w].op = op
    /\ sess[w].id = id
    /\ sess'[w].pc = "idle"

(* C16 as stated: once an allocation is created, no update and no close    *)
(* changes its quantity, purchase_price, purchase_date or total_invested.  *)
C16_PurchaseEventImmutable ==
    [][\A id \in 1..Len(allocations) :
          /\ allocations'[id].quantity = allocations[id].quantity
          /\ allocations'[id].purchase_price = allocations[id].purchase_price
          /\ allocations'[id].purchase_date = allocations[id].purchase_date
          /\ allocations'[id].total_invested = allocations[id].total_invested]_vars

(* C16 amended: no update and no close changes purchase_price or           *)
(* purchase_date; quantity and total_invested change only when an update   *)
(* request is committed, never through a close.                            *)
C16_PurchasePriceAndDateImmutable ==
    [][\A id \in 1..Len(allocations) :
          /\ allocations'[id].purchase_price = allocations[id].purchase_price
          /\ allocations'[id].purchase_date = allocations[id].purchase_date
          /\ (\/ allocations'[id].quantity # allocations[id].quantity
              \/ allocations'[id].total_invested # allocations[id].total_invested)
                 => \E w \in Workers : Commits(w, "update", id)]_vars

(* an allocation created with quantity 1.50 at 0.01, closed after an       *)
(* update set its quantity to 50.00                                        *)
C16_Witness ==
    \E r \in Rows :
        /\ IsClosed(r)
        /\ r.purchase_price = 1
        /\ r.quantity = 5000
        /\ r.total_invested = 5000

(* C17: in every state reached through create and update requests each    *)
(* allocation has total_invested = quantity * purchase_price (fees apart), *)
(* to the two decimals the column keeps, also after an update of the       *)
(* quantity, of the fees or of neither.                                    *)
C17_TotalInvestedIsProduct ==
    \A r \in Rows :
        r.is_active => r.total_invested = Round2(r.quantity * r.purchase_price)

(***************************************************************************)
(* Position valuator                                                       *)
(***************************************************************************)
Priced(r) ==
    /\ AssetOf(r) # None
    /\ Val(AssetOf(r)).current_price # None
    /\ Val(AssetOf(r)).current_price # Some(0)

PriceOf(r) == Val(Val(AssetOf(r)).current_price)

C18_ClosedStaysClosed ==
    \A r \in Rows : ~r.is_active => /\ r.unrealized_gain_loss = None
                                    /\ r.unrealized_gain_loss_percent = None

(* C19: once a price refresh has given the asset a price, every open       *)
(* allocation on the asset has unrealized_gain_loss = quantity *           *)
(* current_price - (total_invested + fees).                                *)
C19_UnrealizedTracksPrice ==
    \A r \in Rows :
        (r.is_active /\ Priced(r))
            => r.unrealized_gain_loss =
                   Some(Round2(r.quantity * PriceOf(r) - (r.total_invested + r.fees)))

(***************************************************************************)
(* Net new money (GET /dashboard/net-new-money)                            *)
(***************************************************************************)
RECURSIVE SumOver(_, _)
(* the sum of f over the set S of its arguments *)
SumOver(f, S) ==
    IF S = {} THEN 0
    ELSE LET x == CHOOSE y \in S : TRUE IN f[x] + SumOver(f, S \ {x})

RECURSIVE SortedSeq(_)
(* sorted(S): the elements of a set of integers in ascending order *)
SortedSeq(S) ==
    IF S = {} THEN <<>>
    ELSE LET m == CHOOSE x \in S : \A y \in S : x <= y
         IN  <<m>> \o SortedSeq(S \ {m})

PERIOD_TYPES == {"daily", "weekly", "monthly"}

(* func.date_trunc(unit, d): the day itself, the Monday of its week, the   *)
(* first day of its month (day 1 is Monday 1 January, day 32 1 February)   *)
date_trunc(unit, d) ==
    CASE unit = "month" -> (IF d <= 31 THEN 1 ELSE IF d <= 60 THEN 32 ELSE 61)
      [] unit = "week"  -> d - ((d - 1) % 7)
      [] OTHER          -> d

(* the grouping expression of get_net_new_money_history, built once from   *)
(* Allocation.purchase_date and used by both of its queries                *)
period_of(period_type, row) ==
    IF period_type = "monthly" THEN date_trunc("month", row.purchase_date)
    ELSE IF period_type = "weekly" THEN date_trunc("week", row.purchase_date)
    ELSE date_trunc("day", row.purchase_date)

(* inflows_query: period -> sum of total_invested *)
inflows_data(start_date, end_date, period_type) ==
    LET sel == {i \in 1..Len(allocations) :
                   /\ allocations[i].purchase_date >= start_date
                   /\ allocations[i].purchase_date <= end_date
                   /\ allocations[i].is_active = TRUE}
        amount == [i \in sel |-> allocations[i].total_invested]
    IN  [p \in {period_of(period_type, allocations[i]) : i \in sel} |->
            SumOver(amount, {i \in sel : period_of(period_type, allocations[i]) = p})]

(* outflows_query: period -> sum of quantity * exit_price *)
outflows_data(start_date, end_date, period_type) ==
    LET sel == {i \in 1..Len(allocations) :
                   /\ allocations[i].exit_date # None
                   /\ Val(allocations[i].exit_date) >= start_date
                   /\ Val(allocations[i].exit_date) <= end_date
                   /\ allocations[i].is_active = FALSE}
        amount == [i \in sel |->
                      allocations[i].quantity * Val(allocations[i].exit_price)]
    IN  [p \in {period_of(period_type, allocations[i]) : i \in sel} |->
            SumOver(amount, {i \in sel : period_of(period_type, allocations[i]) = p})]

(* the loop that combines the two maps, restarting the running sum at      *)
(* every period                                                            *)
combine_flows_no_running_sum(inflows, outflows, period_type) ==
    LET periods == SortedSeq(DOMAIN inflows \cup DOMAIN outflows)
        in_(k)  == IF periods[k] \in DOMAIN inflows THEN inflows[periods[k]] ELSE 0
        out_(k) == IF periods[k] \in DOMAIN outflows THEN outflows[periods[k]] ELSE 0
    IN  [k \in 1..Len(periods) |->
            [period |-> periods[k], inflows |-> in_(k), outflows |-> out_(k),
             net_flow |-> in_(k) - out_(k), cumulative_net |-> in_(k) - out_(k),
             period_type |-> period_type]]

(* the loop that combines the two maps into the response *)
combine_flows(inflows, outflows, period_type) ==
    LET periods == SortedSeq(DOMAIN inflows \cup DOMAIN outflows)
        in_(k)  == IF periods[k] \in DOMAIN inflows THEN inflows[periods[k]] ELSE 0
        out_(k) == IF periods[k] \in DOMAIN outflows THEN outflows[periods[k]] ELSE 0
        cumulative_net[k \in 0..Len(periods)] ==
            IF k = 0 THEN 0 ELSE cumulative_net[k - 1] + (in_(k) - out_(k))
    IN  [k \in 1..Len(periods) |->
            [period |-> periods[k], inflows |-> in_(k), outflows |-> out_(k),
             net_flow |-> in_(k) - out_(k), cumulative_net |-> cumulative_net[k],
             period_type |-> period_type]]

get_net_new_money_history(start_date, end_date, period_type) ==
    combine_flows(inflows_data(start_date, end_date, period_type),
                  outflows_data(start_date, end_date, period_type), period_type)

(***************************************************************************)
(* SpecFlows: purchases and closes on several days, one request at a time. *)
(***************************************************************************)
MaxFlowRows == 2

(* Wed 31 Jan, Thu 1 Feb (same week, next month), Mon 5 Feb (next week) *)
FLOW_DATES == {31, 32, 36}

CreateFlows ==
    [client_id : {1}, asset_id : {1}, quantity : {100, 300}, purchase_price : {1000},
     purchase_date : FLOW_DATES, fees : {None}]

CloseFlows ==
    [exit_price : {1500}, exit_date : {None} \cup {Some(d) : d \in FLOW_DATES},
     exit_fees : {0}]

NextFlows ==
    \/ \E data \in CreateFlows :
           Len(allocations) < MaxFlowRows /\ create_allocation(1, data)
    \/ \E id \in 1..MaxFlowRows, req \in CloseFlows, now \in FLOW_DATES :
           close_allocation(1, id, req, now)
    \/ db_commit(1)

SpecFlows == Init /\ [][NextFlows]_vars

Queries == FLOW_DATES \X FLOW_DATES \X PERIOD_TYPES

Response(q) == get_net_new_money_history(q[1], q[2], q[3])

RECURSIVE SumNetFlow(_, _)
SumNetFlow(resp, k) == IF k = 0 THEN 0 ELSE resp[k].net_flow + SumNetFlow(resp, k - 1)

(* C9: in every response net_flow = inflows - outflows in each bucket, the *)
(* buckets are in chronological order, and cumulative_net of the k-th      *)
(* bucket is the sum of net_flow over buckets 1..k (so the last one is the *)
(* sum of all net flows).                                                  *)
C9_CumulativeNet ==
    \A q \in Queries :
        LET resp == Response(q)
        IN  \A k \in 1..Len(resp) :
                /\ resp[k].net_flow = resp[k].inflows - resp[k].outflows
                /\ resp[k].cumulative_net = SumNetFlow(resp, k)
                /\ k > 1 => resp[k - 1].period < resp[k].period

(* a response of two buckets, the first with an outflow, the second with   *)
(* an inflow, whose cumulative_net differs from its net_flow               *)
C9_Witness ==
    \E q \in Queries :
        /\ Len(Response(q)) = 2
        /\ Response(q)[1].outflows > 0
        /\ Response(q)[2].inflows > 0
        /\ Response(q)[2].cumulative_net # Response(q)[2].net_flow

(* the closed allocations whose exit_date is in the range of query q *)
ClosedInRange(q) ==
    {i \in 1..Len(allocations) :
        /\ ~allocations[i].is_active
        /\ allocations[i].exit_date # None
        /\ Val(allocations[i].exit_date) >= q[1]
        /\ Val(allocations[i].exit_date) <= q[2]}

ExitPeriod(q, i) ==
    date_trunc(CASE q[3] = "monthly" -> "month" [] q[3] = "weekly" -> "week"
                 [] OTHER -> "day",
               Val(allocations[i].exit_date))

(* C10: the outflow quantity * exit_price of every closed allocation whose *)
(* exit_date is in the range is in the bucket of its exit_date: that       *)
(* bucket is in the response and its outflows are the sum over the closed  *)
(* allocations that exited in it.                                          *)
C10_OutflowInExitBucket ==
    \A q \in Queries : \A i \in ClosedInRange(q) :
        LET resp == Response(q)
            same == {j \in ClosedInRange(q) : ExitPeriod(q, j) = ExitPeriod(q, i)}
            amount == [j \in same |->
                          allocations[j].quantity * Val(allocations[j].exit_price)]
        IN  \E k \in 1..Len(resp) :
                /\ resp[k].period = ExitPeriod(q, i)
                /\ resp[k].outflows = SumOver(amount, same)

(* the allocations, open or closed, whose purchase_date is in the range of *)
(* query q                                                                 *)
PurchasedInRange(q) ==
    {i \in 1..Len(allocations) :
        /\ allocations[i].purchase_date >= q[1]
        /\ allocations[i].purchase_date <= q[2]}

(* C11: the inflows of a bucket are the sum of total_invested over every   *)
(* allocation purchased in it (in range), open or since closed, so closing *)
(* a position leaves the inflow of the bucket of its purchase_date as it   *)
(* was.                                                                    *)
C11_InflowKeepsClosed ==
    \A q \in Queries : \A i \in PurchasedInRange(q) :
        LET resp == Response(q)
            same == {j \in PurchasedInRange(q) :
                        period_of(q[3], allocations[j]) = period_of(q[3], allocations[i])}
            amount == [j \in same |-> allocations[j].total_invested]
        IN  \E k \in 1..Len(resp) :
                /\ resp[k].period = period_of(q[3], allocations[i])
                /\ resp[k].inflows = SumOver(amount, same)

(* the buckets of query q in which an allocation was purchased or closed,  *)
(* the purchase_date or the exit_date being in the range                   *)
InflowBuckets(q) == {period_of(q[3], allocations[i]) : i \in PurchasedInRange(q)}

OutflowBuckets(q) == {ExitPeriod(q, i) : i \in ClosedInRange(q)}

(* C12: the buckets of the response are exactly the buckets with a         *)
(* purchase or a close in range, each once and in ascending order; a       *)
(* bucket without a purchase has inflows 0, one without a close outflows 0.*)
C12_BucketsAreEventUnion ==
    \A q \in Queries :
        LET resp == Response(q)
        IN  /\ {resp[k].period : k \in 1..Len(resp)} = InflowBuckets(q) \cup OutflowBuckets(q)
            /\ \A j, k \in 1..Len(resp) : j < k => resp[j].period < resp[k].period
            /\ \A k \in 1..Len(resp) :
                   /\ resp[k].period \notin InflowBuckets(q) => resp[k].inflows = 0
                   /\ resp[k].period \notin OutflowBuckets(q) => resp[k].outflows = 0

(***************************************************************************)
(* Return calculations (app/utils/calculations.py).  A float or a Decimal  *)
(* quotient is the exact rational <<numerator, denominator>> in lowest     *)
(* terms, denominator > 0: rounding of floats is not modelled.  A dict is  *)
(* the sequence of its <<key, value>> items in insertion order.            *)
(***************************************************************************)
RatAdd(x, y) == Rat(x[1] * y[2] + y[1] * x[2], x[2] * y[2])

RatSub(x, y) == Rat(x[1] * y[2] - y[1] * x[2], x[2] * y[2])

RatMul(x, y) == Rat(x[1] * y[1], x[2] * y[2])

One == <<1, 1>>

Zero == <<0, 1>>

DictKeys(d) == {d[i][1] : i \in 1..Len(d)}

DictGet(d, k) == d[CHOOSE i \in 1..Len(d) : d[i][1] = k][2]

(* calculate_twr adding the returns up instead of compounding them *)
calculate_twr_additive(daily_returns) ==
    IF daily_returns = <<>> THEN Zero
    ELSE LET days == SortedSeq(DictKeys(daily_returns))
             returns_sum[k \in 0..Len(days)] ==
                 IF k = 0 THEN Zero
                 ELSE RatAdd(returns_sum[k - 1], DictGet(daily_returns, days[k]))
         IN  returns_sum[Len(days)]

calculate_twr(daily_returns) ==
    IF daily_returns = <<>> THEN Zero
    ELSE LET days == SortedSeq(DictKeys(daily_returns))
             returns_product[k \in 0..Len(days)] ==
                 IF k = 0 THEN One
                 ELSE RatMul(returns_product[k - 1],
                             RatAdd(One, DictGet(daily_returns, days[k])))
         IN  RatSub(returns_product[Len(days)], One)

(* asset_prices[asset_id][date] = close_price, over the bars in order *)
asset_prices(price_history, asset_id, day) ==
    LET hits == {i \in 1..Len(price_history) :
                    /\ price_history[i].asset_id = asset_id
                    /\ price_history[i].date = day}
    IN  IF hits = {} THEN None
        ELSE Some(price_history[CHOOSE i \in hits : \A j \in hits : j <= i].close_price)

(* day_value counting an allocation only on the days it was held *)
day_value_in_holding_window(allocs, price_history, day) ==
    LET term == [i \in 1..Len(allocs) |->
                    LET price == asset_prices(price_history, allocs[i].asset_id, day)
                    IN  IF /\ price # None /\ price # Some(0)
                           /\ allocs[i].purchase_date <= day
                           /\ (allocs[i].exit_date = None \/ Val(allocs[i].exit_date) >= day)
                        THEN allocs[i].quantity * Val(price) ELSE 0]
    IN  SumOver(term, 1..Len(allocs))

(* day_value: the sum, over the allocations, of quantity * price where the *)
(* asset has a (non-zero) price on the day                                 *)
day_value(allocs, price_history, day) ==
    LET term == [i \in 1..Len(allocs) |->
                    LET price == asset_prices(price_history, allocs[i].asset_id, day)
                    IN  IF price # None /\ price # Some(0)
                        THEN allocs[i].quantity * Val(price) ELSE 0]
    IN  SumOver(term, 1..Len(allocs))

(* the portfolio_value map keeping every date, also one whose value is 0 *)
portfolio_value_with_zeros(allocs, price_history) ==
    LET all_dates == {price_history[i].date : i \in 1..Len(price_history)}
    IN  [day \in all_dates |-> day_value(allocs, price_history, day)]

(* the portfolio_value map of calculate_daily_returns *)
portfolio_value(allocs, price_history) ==
    LET all_dates == {price_history[i].date : i \in 1..Len(price_history)}
    IN  [day \in {d \in all_dates : day_value(allocs, price_history, d) > 0} |->
            day_value(allocs, price_history, day)]

(* the daily_returns loop demanding that yesterday is the calendar day     *)
(* before today                                                            *)
daily_returns_adjacent_only(value) ==
    LET sorted_days == SortedSeq(DOMAIN value)
        kept == {i \in 2..Len(sorted_days) :
                    /\ value[sorted_days[i - 1]] > 0
                    /\ sorted_days[i - 1] = sorted_days[i] - 1}
    IN  [k \in 1..Cardinality(kept) |->
            LET i == SortedSeq(kept)[k]
            IN  <<sorted_days[i],
                  Rat(value[sorted_days[i]] - value[sorted_days[i - 1]],
                      value[sorted_days[i - 1]])>>]

(* the daily_returns loop measuring every date against the first retained *)
(* date instead of the one before it                                       *)
daily_returns_from_start(value) ==
    LET sorted_days == SortedSeq(DOMAIN value)
    IN  [k \in 1..(Len(sorted_days) - 1) |->
            <<sorted_days[k + 1],
              Rat(value[sorted_days[k + 1]] - value[sorted_days[1]],
                  value[sorted_days[1]])>>]

(* the daily_returns loop of calculate_daily_returns over portfolio_value *)
daily_returns_of(value) ==
    LET sorted_days == SortedSeq(DOMAIN value)
        kept == {i \in 2..Len(sorted_days) : value[sorted_days[i - 1]] > 0}
    IN  [k \in 1..Cardinality(kept) |->
            LET i == SortedSeq(kept)[k]
            IN  <<sorted_days[i],
                  Rat(value[sorted_days[i]] - value[sorted_days[i - 1]],
                      value[sorted_days[i - 1]])>>]

(* calculate_daily_returns reading sorted_days[0] and sorted_days[-1]      *)
(* without the test for an empty list: when no date is retained the call   *)
(* raises, which is the record [raised |-> the exception]                  *)
calculate_daily_returns_unguarded(allocs, price_history) ==
    LET value == portfolio_value(allocs, price_history)
        sorted_days == SortedSeq(DOMAIN value)
    IN  IF sorted_days = <<>> THEN [raised |-> "IndexError"]
        ELSE [portfolio_value |-> value,
              daily_returns   |-> daily_returns_of(value),
              start_value     |-> value[sorted_days[1]],
              end_value       |-> value[sorted_days[Len(sorted_days)]]]

(* calculate_daily_returns; portfolio_value, its local, is kept beside the *)
(* three values it returns                                                 *)
calculate_daily_returns(allocs, price_history) ==
    LET value == portfolio_value(allocs, price_history)
        sorted_days == SortedSeq(DOMAIN value)
    IN  [portfolio_value |-> value,
         daily_returns   |-> daily_returns_of(value),
         start_value     |-> IF sorted_days # <<>> THEN value[sorted_days[1]] ELSE 0,
         end_value       |-> IF sorted_days # <<>>
                             THEN value[sorted_days[Len(sorted_days)]] ELSE 0]

(***************************************************************************)
(* SpecTwr: calculate_twr on every map of at most MaxReturns returns.      *)
(***************************************************************************)
MaxReturns == 3

RETURNS == {<<-1, 2>>, <<1, 10>>, <<1, 5>>}

(* the dicts of n items over the days 1..MaxReturns, in every insertion order *)
Dicts(n) ==
    {d \in [1..n -> (1..MaxReturns) \X RETURNS] :
        \A i, j \in 1..n : i # j => d[i][1] # d[j][1]}

InitTwr ==
    /\ InitLedger
    /\ InitOthers
    /\ call \in UNION {Dicts(n) : n \in 0..MaxReturns}
    /\ result = None

twr_call ==
    /\ result = None
    /\ result' = Some(calculate_twr(call))
    /\ UNCHANGED <<ledger, call, others>>

SpecTwr == InitTwr /\ [][twr_call]_vars

(* the items of dict d at the positions of S, in their order *)
SubDict(d, S) == [k \in 1..Cardinality(S) |-> d[SortedSeq(S)[k]]]

Orderings(n) == {f \in [1..n -> 1..n] : \A i, j \in 1..n : i # j => f[i] # f[j]}

RECURSIVE Compound(_, _)
(* the product of (1 + r) over the first k items of d, in insertion order *)
Compound(d, k) ==
    IF k = 0 THEN One ELSE RatMul(Compound(d, k - 1), RatAdd(One, d[k][2]))

(* C6: calculate_twr is 0 on the empty map, r on a single return r,        *)
(* (1+r1)*(1+r2)-1 on two, in general the product of (1 + r_i) minus 1;    *)
(* it is the same in whatever order the entries are supplied, and          *)
(* chain-linking the results of any two groups of the entries gives it.    *)
C6_ChainLinking ==
    result # None =>
        LET twr == Val(result)
            n == Len(call)
        IN  /\ n = 0 => twr = Zero
            /\ n = 1 => twr = call[1][2]
            /\ n = 2 => twr = Rat((call[1][2][1] + call[1][2][2])
                                    * (call[2][2][1] + call[2][2][2])
                                  - call[1][2][2] * call[2][2][2],
                                  call[1][2][2] * call[2][2][2])
            /\ twr = RatSub(Compound(call, n), One)
            /\ \A f \in Orderings(n) :
                   calculate_twr([k \in 1..n |-> call[f[k]]]) = twr
            /\ \A S \in SUBSET (1..n) :
                   RatSub(RatMul(RatAdd(One, calculate_twr(SubDict(call, S))),
                                 RatAdd(One, calculate_twr(SubDict(call, (1..n) \ S)))),
                          One) = twr

(* a map of three returns supplied latest day first *)
C6_Witness ==
    /\ result # None
    /\ Len(call) = 3
    /\ call[1][1] > call[2][1]
    /\ call[2][1] > call[3][1]
    /\ Val(result) # Zero

(***************************************************************************)
(* SpecReturns: calculate_daily_returns on every list of at most MaxHeld   *)
(* allocations and every price history over MaxDays days.                  *)
(***************************************************************************)
MaxHeld == 2

MaxDays == 3

HELD_ASSETS == {1, 2}

(* the close of an asset on a day: no bar, or a bar with this close *)
CLOSES(asset_id) == IF asset_id = 1 THEN {None, Some(10), Some(12)}
                    ELSE {None, Some(0), Some(12)}

(* the bars of a table close[asset][day], ordered by date *)
BarsOf(close) ==
    LET keys == {d * 10 + a : d \in 1..MaxDays, a \in HELD_ASSETS}
        have == SortedSeq({k \in keys : close[k % 10][k \div 10] # None})
    IN  [i \in 1..Len(have) |->
            [asset_id |-> have[i] % 10, date |-> have[i] \div 10,
             close_price |-> Val(close[have[i] % 10][have[i] \div 10])]]

InitReturns ==
    /\ InitLedger
    /\ InitOthers
    /\ \E n \in 0..MaxHeld :
       \E allocs \in [1..n -> [asset_id : HELD_ASSETS, quantity : {100}]] :
       \E c1 \in [1..MaxDays -> CLOSES(1)], c2 \in [1..MaxDays -> CLOSES(2)] :
           call = [allocations |-> allocs, price_history |-> BarsOf(<<c1, c2>>)]
    /\ result = None

returns_call ==
    /\ result = None
    /\ result' = Some(calculate_daily_returns(call.allocations, call.price_history))
    /\ UNCHANGED <<ledger, call, others>>

SpecReturns == InitReturns /\ [][returns_call]_vars

BarDates == {call.price_history[i].date : i \in 1..Len(call.price_history)}

(* the value of the portfolio on a day: quantity * close over the          *)
(* allocations whose asset has a bar of that day                           *)
DayTotal(day) ==
    LET bars == call.price_history
        term == [i \in 1..Len(call.allocations) |->
                    LET own == {j \in 1..Len(bars) :
                                   /\ bars[j].asset_id = call.allocations[i].asset_id
                                   /\ bars[j].date = day}
                    IN  IF own = {} THEN 0
                        ELSE call.allocations[i].quantity
                             * bars[CHOOSE j \in own : TRUE].close_price]
    IN  SumOver(term, 1..Len(call.allocations))

(* C7: every date of the portfolio value series has a strictly positive    *)
(* value, the value of that day; a date with bars whose value is 0 is not  *)
(* in the series, and no daily return is keyed by a date outside it.       *)
C7_SparseSeries ==
    result # None =>
        LET series == Val(result).portfolio_value
        IN  /\ \A d \in DOMAIN series : series[d] > 0 /\ series[d] = DayTotal(d)
            /\ \A d \in BarDates : DayTotal(d) = 0 => d \notin DOMAIN series
            /\ \A d \in BarDates : DayTotal(d) > 0 => d \in DOMAIN series
            /\ DictKeys(Val(result).daily_returns) \subseteq DOMAIN series

(* a held position, a retained date, and a date that has a bar but no      *)
(* value, dropped from the series                                          *)
C7_Witness ==
    /\ result # None
    /\ call.allocations # <<>>
    /\ DOMAIN Val(result).portfolio_value # {}
    /\ \E d \in BarDates : DayTotal(d) = 0 /\ d \notin DOMAIN Val(result).portfolio_value

(* 100 units of asset 1, whose only bars are day 1 (close 10) and day 3    *)
(* (close 12)                                                              *)
GapExample ==
    /\ call.allocations = <<[asset_id |-> 1, quantity |-> 100]>>
    /\ call.price_history = <<[asset_id |-> 1, date |-> 1, close_price |-> 10],
                              [asset_id |-> 1, date |-> 3, close_price |-> 12]>>

(* C8: for retained dates d_prev < d with no retained date between them,   *)
(* daily_return[d] = (value[d] - value[d_prev]) / value[d_prev], whatever  *)
(* the calendar gap; the first retained date has no return; in the example *)
(* the return of day 3 is 0.20 and the TWR is 0.20.                        *)
C8_ConsecutiveRetained ==
    result # None =>
        LET series == Val(result).portfolio_value
            returns == Val(result).daily_returns
        IN  /\ \A p, d \in DOMAIN series :
                   (p < d /\ ~\E m \in DOMAIN series : p < m /\ m < d)
                       => /\ d \in DictKeys(returns)
                          /\ DictGet(returns, d) = Rat(series[d] - series[p], series[p])
            /\ \A d \in DictKeys(returns) : \E p \in DOMAIN series : p < d
            /\ GapExample => /\ returns = << <<3, <<1, 5>>>> >>
                             /\ calculate_twr(returns) = <<1, 5>>

(* the example, evaluated *)
C8_Witness ==
    /\ result # None
    /\ GapExample
    /\ DOMAIN Val(result).portfolio_value = {1, 3}
    /\ DictKeys(Val(result).daily_returns) = {3}

(* C14: calculate_daily_returns and calculate_twr give a result on missing *)
(* data: whatever the allocations and the bars (none of either, assets or  *)
(* dates without a bar) start_value and end_value are numbers and the      *)
(* return map has a TWR; when no date is retained the map is empty,        *)
(* start_value = end_value = 0 and the TWR is 0.                           *)
C14_NoRaiseOnMissingData ==
    result # None =>
        LET r == Val(result)
        IN  /\ "raised" \notin DOMAIN r
            /\ r.start_value \in Nat
            /\ r.end_value \in Nat
            /\ calculate_twr(r.daily_returns) \in Int \X (Nat \ {0})
            /\ DOMAIN r.portfolio_value = {}
                   => /\ r.daily_returns = <<>>
                      /\ r.start_value = 0
                      /\ r.end_value = 0
                      /\ calculate_twr(r.daily_returns) = Zero

(* allocations and bars, but no bar of a held asset: no date is retained *)
C14_Witness ==
    /\ result # None
    /\ call.allocations # <<>>
    /\ call.price_history # <<>>
    /\ DOMAIN Val(result).portfolio_value = {}
    /\ Val(result).start_value = 0

(* the days strictly between the first and the last retained date that    *)
(* are not retained: no bar of a held asset, or a value of 0               *)
GapDays ==
    LET series == Val(result).portfolio_value
    IN  {d \in 1..MaxDays :
            /\ d \notin DOMAIN series
            /\ \E p, n \in DOMAIN series : p < d /\ d < n}

(* C21 as stated: on an input with a gap in the price history the return   *)
(* series has strictly fewer entries than the retained dates minus one.    *)
C21_GapShortensSeries ==
    (result # None /\ GapDays # {}) =>
        Len(Val(result).daily_returns) < Cardinality(DOMAIN Val(result).portfolio_value) - 1

(* C21 as the code has it: with at least one retained date the return      *)
(* series has exactly (retained dates - 1) entries, gap or no gap, every   *)
(* retained date but the first being keyed; it is shorter than (dates with *)
(* a bar - 1) exactly when a date with bars is not retained.               *)
C21_OneReturnPerRetainedDateButFirst ==
    result # None =>
        LET series == Val(result).portfolio_value
            returns == Val(result).daily_returns
        IN  /\ DOMAIN series # {} =>
                /\ Len(returns) = Cardinality(DOMAIN series) - 1
                /\ DictKeys(returns) =
                       DOMAIN series \ {CHOOSE d \in DOMAIN series :
                                            \A e \in DOMAIN series : d <= e}
                /\ (Len(returns) < Cardinality(BarDates) - 1)
                       <=> (BarDates \ DOMAIN series # {})
            /\ DOMAIN series = {} => returns = <<>>

(* two retained dates around a date with a bar of value 0: one return *)
C21_Witness ==
    /\ result # None
    /\ GapDays # {}
    /\ GapDays \subseteq BarDates
    /\ Cardinality(DOMAIN Val(result).portfolio_value) = 2
    /\ Len(Val(result).daily_returns) = 1

(* the sequences of at most n elements of S *)
SeqsUpTo(S, n) == UNION {[1..k -> S] : k \in 0..n}

(***************************************************************************)
(* Client performance (GET /clients/{client_id}/performance).  The request *)
(* and the tables it reads are the fields of call.                         *)
(***************************************************************************)

(* calculate_irr: a placeholder *)
calculate_irr(cash_flows) == Zero

(* date.today().replace(year=date.today().year - 1); 29 February (day 60)  *)
(* has no such date: ValueError, None here                                 *)
one_year_before(today) ==
    IF today = 60 THEN None
    ELSE IF today < 60 THEN Some(today - 365) ELSE Some(today - 366)

(* allocations_query *)
allocations_query(rows, client_id, start_date, end_date) ==
    SelectSeq(rows, LAMBDA a : /\ a.client_id = client_id
                               /\ a.purchase_date <= end_date
                               /\ (a.exit_date = None \/ Val(a.exit_date) >= start_date))

(* prices_query, over bars that the table holds ordered by date *)
prices_query(bars, asset_ids, start_date, end_date) ==
    SelectSeq(bars, LAMBDA b : /\ b.asset_id \in asset_ids
                               /\ b.date >= start_date
                               /\ b.date <= end_date)

(* ReturnCalculation(...) with the time-weighted return copied into        *)
(* money_weighted_return                                                   *)
ReturnCalculation_mwr_from_twr(start_date, end_date, returns, start_value, end_value) ==
    [status |-> 200,
     start_date |-> start_date,
     end_date |-> end_date,
     start_value |-> start_value,
     end_value |-> end_value,
     cash_flows |-> <<>>,
     time_weighted_return |-> calculate_twr(returns),
     money_weighted_return |-> calculate_twr(returns),
     simple_return |-> IF start_value > 0
                       THEN Rat(end_value - start_value, start_value) ELSE Zero]

(* the ReturnCalculation that get_client_performance answers with *)
ReturnCalculation(start_date, end_date, returns, start_value, end_value) ==
    [status |-> 200,
     start_date |-> start_date,
     end_date |-> end_date,
     start_value |-> start_value,
     end_value |-> end_value,
     cash_flows |-> <<>>,
     time_weighted_return |-> calculate_twr(returns),
     money_weighted_return |-> Zero,
     simple_return |-> IF start_value > 0
                       THEN Rat(end_value - start_value, start_value) ELSE Zero]

(* the body of get_client_performance; an exception is answered with 500 *)
client_performance(req) ==
    IF req.start_date = None /\ one_year_before(req.today) = None
    THEN [status |-> 500]
    ELSE LET start_date == IF req.start_date = None THEN Val(one_year_before(req.today))
                           ELSE Val(req.start_date)
             end_date == IF req.end_date = None THEN req.today ELSE Val(req.end_date)
             allocs == allocations_query(req.allocations, req.client_id,
                                         start_date, end_date)
             asset_ids == {allocs[i].asset_id : i \in 1..Len(allocs)}
             price_history == prices_query(req.price_history, asset_ids,
                                           start_date, end_date)
             computed == calculate_daily_returns(allocs, price_history)
         IN  ReturnCalculation(start_date, end_date, computed.daily_returns,
                               computed.start_value, computed.end_value)

(***************************************************************************)
(* SpecPerformance: get_client_performance on every small database.        *)
(***************************************************************************)
MaxPerfAllocs == 2

PERF_DAYS == {1, 2}

(* the rows of client 1, and a row of another client *)
PERF_ROWS ==
    [client_id : {1}, asset_id : HELD_ASSETS, quantity : {100},
     purchase_date : PERF_DAYS, exit_date : {None, Some(1)}]
    \cup {[client_id |-> 2, asset_id |-> 1, quantity |-> 100,
           purchase_date |-> 1, exit_date |-> None]}

PERF_CLOSES(asset_id) == IF asset_id = 1 THEN {None, Some(10), Some(12)}
                         ELSE {None, Some(12)}

(* the bars of a table close[asset][day] over PERF_DAYS, ordered by date *)
PerfBarsOf(close) ==
    LET keys == {d * 10 + a : d \in PERF_DAYS, a \in HELD_ASSETS}
        have == SortedSeq({k \in keys : close[k % 10][k \div 10] # None})
    IN  [i \in 1..Len(have) |->
            [asset_id |-> have[i] % 10, date |-> have[i] \div 10,
             close_price |-> Val(close[have[i] % 10][have[i] \div 10])]]

(* start_date, end_date (None when the query omits them) and today *)
PERF_REQUESTS ==
    { <<Some(1), Some(2), 2>>, <<Some(2), Some(2), 2>>, <<Some(1), Some(1), 2>>,
      <<Some(1), None, 2>>, <<None, None, 2>>, <<None, None, 60>> }

InitPerformance ==
    /\ InitLedger
    /\ InitOthers
    /\ \E rows \in SeqsUpTo(PERF_ROWS, MaxPerfAllocs) :
       \E c1 \in [PERF_DAYS -> PERF_CLOSES(1)], c2 \in [PERF_DAYS -> PERF_CLOSES(2)] :
       \E q \in PERF_REQUESTS :
           call = [allocations |-> rows, price_history |-> PerfBarsOf(<<c1, c2>>),
                   client_id |-> 1, start_date |-> q[1], end_date |-> q[2],
                   today |-> q[3]]
    /\ result = None

get_client_performance ==
    /\ result = None
    /\ result' = Some(client_performance(call))
    /\ UNCHANGED <<ledger, call, others>>

SpecPerformance == InitPerformance /\ [][get_client_performance]_vars

CASH_FLOWS == SeqsUpTo({<<-1000, 1>>, <<0, 1>>, <<1200, 1>>}, 2)

(* C22: with at least one retained date, chain-linking the daily returns   *)
(* telescopes: 1 + calculate_twr(returns) = end_value / start_value, where *)
(* start_value and end_value are the values of the earliest and the latest *)
(* retained date, and the time_weighted_return of the answer built from    *)
(* them is its simple_return (in exact arithmetic).                        *)
C22_TwrTelescopes ==
    (result # None /\ DOMAIN Val(result).portfolio_value # {}) =>
        LET r == Val(result)
            days == SortedSeq(DOMAIN r.portfolio_value)
            answer == ReturnCalculation(0, 0, r.daily_returns, r.start_value, r.end_value)
        IN  /\ r.start_value = r.portfolio_value[days[1]]
            /\ r.end_value = r.portfolio_value[days[Len(days)]]
            /\ r.start_value > 0
            /\ RatAdd(One, calculate_twr(r.daily_returns)) = Rat(r.end_value, r.start_value)
            /\ answer.time_weighted_return = answer.simple_return

(* three retained dates of three different values *)
C22_Witness ==
    /\ result # None
    /\ Len(Val(result).daily_returns) = 2
    /\ Cardinality({Val(result).portfolio_value[d] : d \in DOMAIN Val(result).portfolio_value}) = 3
    /\ calculate_twr(Val(result).daily_returns) # Zero
    /\ Val(result).end_value # Val(result).start_value

(* C15: calculate_irr is 0 on every list of cash flows, and every          *)
(* performance result has the field money_weighted_return, equal to 0,     *)
(* whatever the allocations, the prices and the dates.                     *)
C15_MoneyWeightedReturnIsZero ==
    /\ \A cash_flows \in CASH_FLOWS : calculate_irr(cash_flows) = Zero
    /\ (result # None /\ Val(result).status = 200)
           => /\ "money_weighted_return" \in DOMAIN Val(result)
              /\ Val(result).money_weighted_return = Zero

(* a result whose time-weighted and simple returns are not 0 *)
C15_Witness ==
    /\ result # None
    /\ Val(result).status = 200
    /\ Val(result).time_weighted_return # Zero
    /\ Val(result).simple_return # Zero
    /\ Val(result).money_weighted_return = Zero

(* the allocations and the bars that the request of a result passed to     *)
(* calculate_daily_returns                                                 *)
PassedAllocations ==
    allocations_query(call.allocations, call.client_id,
                      Val(result).start_date, Val(result).end_date)

PassedBars ==
    prices_query(call.price_history,
                 {PassedAllocations[i].asset_id : i \in 1..Len(PassedAllocations)},
                 Val(result).start_date, Val(result).end_date)

(* the sum of quantity * close over the passed allocations whose asset has *)
(* a bar dated d                                                           *)
ValueOfBarsOn(d) ==
    LET term == [i \in 1..Len(PassedAllocations) |->
                    LET own == {j \in 1..Len(PassedBars) :
                                   /\ PassedBars[j].asset_id = PassedAllocations[i].asset_id
                                   /\ PassedBars[j].date = d}
                    IN  IF own = {} THEN 0
                        ELSE PassedAllocations[i].quantity
                             * PassedBars[CHOOSE j \in own : TRUE].close_price]
    IN  SumOver(term, 1..Len(PassedAllocations))

(* allocation a was held on day d *)
HeldOn(a, d) == a.purchase_date <= d /\ (a.exit_date = None \/ Val(a.exit_date) >= d)

(* C20: the portfolio value of a retained date d is the sum of quantity *  *)
(* close over every allocation passed to the builder whose asset has a bar *)
(* dated d, inside its holding window or not; an allocation without a bar  *)
(* on d adds nothing; start_value and end_value of the result are the      *)
(* values of the first and of the last retained date.                      *)
C20_NoHoldingWindowCheck ==
    (result # None /\ Val(result).status = 200) =>
        LET series == calculate_daily_returns(PassedAllocations, PassedBars).portfolio_value
            days == SortedSeq(DOMAIN series)
        IN  /\ \A d \in DOMAIN series : series[d] = ValueOfBarsOn(d)
            /\ days # <<>> => /\ Val(result).start_value = ValueOfBarsOn(days[1])
                              /\ Val(result).end_value = ValueOfBarsOn(days[Len(days)])

(* a result over two retained dates, the first before the purchase of a    *)
(* passed allocation whose asset has a bar on it, the second after the     *)
(* exit of a passed allocation whose asset has a bar on it                 *)
C20_Witness ==
    /\ result # None
    /\ Val(result).status = 200
    /\ Val(result).start_value > 0
    /\ \A i \in 1..Len(PassedAllocations) :
           \/ PassedAllocations[i].exit_date = None
           \/ Val(PassedAllocations[i].exit_date) >= PassedAllocations[i].purchase_date
    /\ LET series == calculate_daily_returns(PassedAllocations, PassedBars).portfolio_value
           days == SortedSeq(DOMAIN series)
       IN  /\ Len(days) = 2
           /\ \E i \in 1..Len(PassedAllocations) :
                  /\ PassedAllocations[i].purchase_date > days[1]
                  /\ asset_prices(PassedBars, PassedAllocations[i].asset_id, days[1]) # None
           /\ \E i \in 1..Len(PassedAllocations) :
                  /\ PassedAllocations[i].exit_date # None
                  /\ Val(PassedAllocations[i].exit_date) < days[2]
                  /\ asset_prices(PassedBars, PassedAllocations[i].asset_id, days[2]) # None

(***************************************************************************)
(* Top advisors (GET /dashboard/top-advisors).  The tables are the fields  *)
(* of call: advisors (id -> is_active), commissions, clients and           *)
(* allocations (sequences of rows, the position being the id).  Revenue is *)
(* counted in cents.  NULL of an outer join is the id 0.                   *)
(***************************************************************************)
NULL == 0

OrNull(S) == IF S = {} THEN {NULL} ELSE S

(* Advisor outerjoin Commission outerjoin Client outerjoin Allocation: the *)
(* rows <<commission, client, allocation>> of advisor a                    *)
joined_rows(db, a) ==
    LET comms == {c \in 1..Len(db.commissions) : db.commissions[c].advisor_id = a}
        clients == {cl \in 1..Len(db.clients) : db.clients[cl].advisor_id = a}
        allocs(cl) == {al \in 1..Len(db.allocations) : db.allocations[al].client_id = cl}
    IN  {<<c, cl, al>> \in OrNull(comms) \X OrNull(clients) \X (0..Len(db.allocations)) :
            IF cl = NULL THEN al = NULL ELSE al \in OrNull(allocs(cl))}

(* the row of the grouped query for advisor a *)
advisor_row(db, a) ==
    LET rows == joined_rows(db, a)
        gross == [r \in rows |-> IF r[1] = NULL THEN 0
                                 ELSE db.commissions[r[1]].gross_revenue]
        invested == [r \in rows |-> IF r[3] = NULL THEN 0
                                    ELSE db.allocations[r[3]].total_invested]
    IN  [id |-> a,
         revenue |-> SumOver(gross, rows),
         clients_count |-> Cardinality({r \in rows : r[2] # NULL}),
         net_new_money |-> SumOver(invested, rows)]

(* total_revenue_query: coalesce(sum(Commission.gross_revenue), 0) *)
total_revenue_scalar(db) ==
    LET gross == [c \in 1..Len(db.commissions) |-> db.commissions[c].gross_revenue]
    IN  SumOver(gross, 1..Len(db.commissions))

(* the share computed by a plain division: ZeroDivisionError (None) on 0 *)
revenue_percentage_unguarded(revenue, scalar) ==
    IF scalar = 0 THEN None ELSE Some(Rat(revenue * 100, scalar))

(* total_revenue = scalar or Decimal('1'); revenue_percentage =             *)
(* (revenue / total_revenue * 100) if total_revenue > 0 else Decimal('0')  *)
revenue_percentage(revenue, scalar) ==
    LET total_revenue == IF scalar = 0 THEN 1 ELSE scalar
    IN  IF total_revenue > 0 THEN Some(Rat(revenue * 100, total_revenue)) ELSE Some(Zero)

(* the response for the rows of the query in the order the database        *)
(* returned them; an exception in the body is answered with 500            *)
top_advisors_response(db, top_advisors) ==
    LET response == [k \in 1..Len(top_advisors) |->
            [advisor_id |-> top_advisors[k].id,
             revenue |-> top_advisors[k].revenue,
             revenue_percentage |->
                 revenue_percentage(top_advisors[k].revenue, total_revenue_scalar(db)),
             net_new_money |-> top_advisors[k].net_new_money,
             clients_count |-> top_advisors[k].clients_count]]
    IN  IF \E k \in 1..Len(response) : response[k].revenue_percentage = None
        THEN [status |-> 500, body |-> <<>>]
        ELSE [status |-> 200,
              body |-> [k \in 1..Len(response) |->
                           [response[k] EXCEPT !.revenue_percentage = Val(@)]]]

(* the results the query may return: the active advisors by descending     *)
(* revenue (ties in any order), the first `limit` of them                  *)
top_advisors_query(db) ==
    LET active == {a \in DOMAIN db.advisors : db.advisors[a]}
        n == Cardinality(active)
        m == IF db.limit < n THEN db.limit ELSE n
    IN  {[k \in 1..m |-> advisor_row(db, order[k])] :
            order \in {o \in [1..n -> active] :
                          /\ \A i, j \in 1..n : i # j => o[i] # o[j]
                          /\ \A i \in 1..(n - 1) :
                                 advisor_row(db, o[i]).revenue
                                     >= advisor_row(db, o[i + 1]).revenue}}

(***************************************************************************)
(* SpecAdvisors: get_top_advisors on every small database.                 *)
(***************************************************************************)
MaxCommissions == 2

MaxClients == 2

MaxAdvisorAllocs == 1

ADVISOR_IDS == {1, 2}

(* CommissionBase.gross_revenue: ge=0 *)
GROSS_REVENUES == {0, 10000}

InitAdvisors ==
    /\ InitLedger
    /\ InitOthers
    /\ call \in [advisors : [ADVISOR_IDS -> BOOLEAN],
                 commissions : SeqsUpTo([advisor_id : ADVISOR_IDS,
                                         gross_revenue : GROSS_REVENUES], MaxCommissions),
                 clients : SeqsUpTo([advisor_id : ADVISOR_IDS], MaxClients),
                 allocations : SeqsUpTo([client_id : 1..MaxClients,
                                         total_invested : {100000}], MaxAdvisorAllocs),
                 limit : {1, 2}]
    /\ result = None

get_top_advisors ==
    /\ result = None
    /\ \E top_advisors \in top_advisors_query(call) :
           result' = Some(top_advisors_response(call, top_advisors))
    /\ UNCHANGED <<ledger, call, others>>

SpecAdvisors == InitAdvisors /\ [][get_top_advisors]_vars

(* C13: when the gross revenue of all commissions sums to 0 (also with no  *)
(* commission at all), the top-advisors request succeeds and every advisor *)
(* of the response has revenue_percentage 0.                               *)
C13_ZeroRevenueShare ==
    (result # None /\ total_revenue_scalar(call) = 0)
        => /\ Val(result).status = 200
           /\ \A k \in 1..Len(Val(result).body) :
                  Val(result).body[k].revenue_percentage = Zero

(* commissions that sum to 0, and an advisor with a client in the response *)
C13_Witness ==
    /\ result # None
    /\ call.commissions # <<>>
    /\ total_revenue_scalar(call) = 0
    /\ Val(result).status = 200
    /\ \E k \in 1..Len(Val(result).body) : Val(result).body[k].clients_count > 0

(* the sum of gross_revenue over the commission rows of advisor a *)
OwnRevenue(a) ==
    LET gross == [c \in 1..Len(call.commissions) |->
                     IF call.commissions[c].advisor_id = a
                     THEN call.commissions[c].gross_revenue ELSE 0]
    IN  SumOver(gross, 1..Len(call.commissions))

(* C23: in the top-advisors response each advisor's revenue is the sum of  *)
(* gross_revenue over the advisor's own commission rows, each counted      *)
(* once whatever the number of clients and allocations of the advisor; so  *)
(* revenue_percentage = revenue / total revenue * 100, and the percentages *)
(* of the response sum to at most 100.                                     *)
C23_RevenueIsOwnCommissions ==
    (result # None /\ Val(result).status = 200) =>
        LET body == Val(result).body
            total == total_revenue_scalar(call)
            share == [k \in 1..Len(body) |-> body[k].revenue_percentage[1]
                                             * (10000 \div body[k].revenue_percentage[2])]
        IN  /\ \A k \in 1..Len(body) :
                   /\ body[k].revenue = OwnRevenue(body[k].advisor_id)
                   /\ total > 0 => body[k].revenue_percentage
                                       = Rat(OwnRevenue(body[k].advisor_id) * 100, total)
            /\ \A k \in 1..Len(body) : 10000 % body[k].revenue_percentage[2] = 0
            /\ SumOver(share, 1..Len(body)) <= 100 * 10000

(***************************************************************************)
(* Live prices over WebSocket (app/websockets/real_time.py).  websockets   *)
(* is the list of the sockets that connect accepted, in the order of their *)
(* arrival: the user of the token, whether the peer has disconnected, and  *)
(* the number of messages it was sent.  active_connections is the dict of  *)
(* the ConnectionManager, from "user:<sub>" (here the sub) to a socket.    *)
(***************************************************************************)

(* verify_token: the payload of a token that is valid, None otherwise *)
verify_token(token) == IF token.valid THEN Some([sub |-> token.sub]) ELSE None

(* d[key] = value of a Python dict *)
DictSet(d, key, value) ==
    [k \in DOMAIN d \cup {key} |-> IF k = key THEN value ELSE d[k]]

(* del d[key] *)
DictDel(d, key) == [k \in DOMAIN d \ {key} |-> d[k]]

(* ConnectionManager.connect, called by websocket_endpoint; with a token   *)
(* that does not verify the socket is closed without being accepted        *)
connect(token) ==
    /\ verify_token(token) # None
    /\ websockets' = Append(websockets,
                            [sub |-> Val(verify_token(token)).sub,
                             disconnected |-> FALSE, received |-> 0])
    /\ active_connections' =
           DictSet(active_connections, Val(verify_token(token)).sub,
                   Len(websockets) + 1)

(* ConnectionManager.disconnect(client_id) *)
disconnect(d, client_id) ==
    IF client_id \in DOMAIN d THEN DictDel(d, client_id) ELSE d

(* ConnectionManager.broadcast: send_text on every value of the dict; a    *)
(* send to a socket whose peer is gone raises and is logged                *)
broadcast(sockets, d) ==
    [s \in DOMAIN sockets |->
        IF (\E k \in DOMAIN d : d[k] = s) /\ ~sockets[s].disconnected
        THEN [sockets[s] EXCEPT !.received = @ + 1]
        ELSE sockets[s]]

(* websocket_endpoint, from the call of connect to the receive loop; the   *)
(* handler of a token that does not verify closes the socket, and nothing  *)
(* of the manager changes                                                  *)
websocket_endpoint(token) ==
    /\ IF verify_token(token) = None THEN UNCHANGED registry ELSE connect(token)
    /\ UNCHANGED <<ledger, calc, clients_table, market>>

(* websocket_endpoint of socket s on WebSocketDisconnect *)
WebSocketDisconnect(s) ==
    /\ s \in DOMAIN websockets
    /\ ~websockets[s].disconnected
    /\ websockets' = [websockets EXCEPT ![s].disconnected = TRUE]
    /\ active_connections' = disconnect(active_connections, websockets[s].sub)
    /\ UNCHANGED <<ledger, calc, clients_table, market>>

(***************************************************************************)
(* SpecSockets: connections of two users, disconnections and broadcasts.   *)
(***************************************************************************)
MaxSockets == 3

MaxMessages == 2

TOKENS == {[sub |-> 1, valid |-> TRUE], [sub |-> 2, valid |-> TRUE],
           [sub |-> 1, valid |-> FALSE]}

(* a caller of manager.broadcast (the real-time price task) *)
broadcast_call ==
    /\ \A s \in DOMAIN websockets : websockets[s].received < MaxMessages
    /\ websockets' = broadcast(websockets, active_connections)
    /\ UNCHANGED <<active_connections, ledger, calc, clients_table, market>>

NextSockets ==
    \/ \E token \in TOKENS : Len(websockets) < MaxSockets /\ websocket_endpoint(token)
    \/ \E s \in 1..MaxSockets : WebSocketDisconnect(s)
    \/ broadcast_call

SpecSockets == Init /\ [][NextSockets]_vars

(* the sockets that were accepted and whose peer has not disconnected *)
LiveSockets == {s \in DOMAIN websockets : ~websockets[s].disconnected}

(* the sockets a broadcast sends to *)
Registered == {active_connections[k] : k \in DOMAIN active_connections}

(* C29: every socket that connect accepted and that has not disconnected   *)
(* is in the registry, and a broadcast delivers to it; so after a user's   *)
(* second connection and the disconnection of the first, the second is     *)
(* registered and receives the broadcasts.                                 *)
C29_RegistryHoldsLiveSockets ==
    /\ LiveSockets \subseteq Registered
    /\ \A s \in LiveSockets :
           broadcast(websockets, active_connections)[s].received
               = websockets[s].received + 1

(***************************************************************************)
(* Price refresh: asset registration (POST /assets), the daily price task  *)
(* and the real-time price task.  What the provider answers is an input.   *)
(* The clock counts hours and a date is clock \div 24.  A task run is one  *)
(* step: it loads, changes and commits without another task in between.    *)
(* Of a bar the model keeps asset_id, date, close_price and the two        *)
(* columns calculate_return fills.                                         *)
(***************************************************************************)

(* Numeric(10,6): the quotient n / d (d > 0) rounded to six decimals, half *)
(* away from zero, counted in units of 0.000001                            *)
Numeric106(n, d) ==
    LET a == IF n < 0 THEN -n ELSE n
        whole == a \div d
        x7 == LET step[k \in 0..7] ==
                      IF k = 0 THEN <<0, a % d>>
                      ELSE <<step[k - 1][1] * 10 + (step[k - 1][2] * 10) \div d,
                             (step[k - 1][2] * 10) % d>>
              IN  step[7][1]
        r == whole * 1000000 + (x7 + 5) \div 10
    IN  IF n < 0 THEN -r ELSE r

(* Asset.is_price_stale(max_age_hours) at time now *)
max_age_hours == 24

is_price_stale(self, now) ==
    IF self.last_price_update = None THEN TRUE
    ELSE now - Val(self.last_price_update) > max_age_hours

(* Asset.update_price_info(price, previous_close); func.now() is now *)
update_price_info(self, price, previous_close, now) ==
    LET set1 == [self EXCEPT !.current_price = Some(price),
                             !.previous_close = Some(previous_close)]
        set2 == IF previous_close > 0
                THEN [set1 EXCEPT
                        !.daily_change = Some(price - previous_close),
                        !.daily_change_percent =
                            Some(Rat((price - previous_close) * 100, previous_close))]
                ELSE set1
    IN  [set2 EXCEPT !.last_price_update = Some(now)]

(* DailyReturn(...) of the latest bar, after calculate_return(previous close) *)
DailyReturn(asset_id, latest_price, previous_price) ==
    LET close == latest_price.close
        previous_close == previous_price.close
    IN  [asset_id |-> asset_id,
         date |-> latest_price.date,
         close_price |-> close,
         daily_return |-> IF previous_close > 0
                          THEN Some(Numeric106((close - previous_close) * 100,
                                               previous_close))
                          ELSE None,
         price_change |-> IF previous_close > 0 THEN Some(close - previous_close)
                          ELSE None]

(* uq_daily_return_asset_date: no two rows of the table have the same      *)
(* (asset_id, date)                                                        *)
uq_daily_return_asset_date(table) ==
    \A i, j \in 1..Len(table) :
        (table[i].asset_id = table[j].asset_id /\ table[i].date = table[j].date)
            => i = j

(* f[1] \o ... \o f[n] *)
RECURSIVE Concat(_, _)
Concat(f, n) == IF n = 0 THEN <<>> ELSE Concat(f, n - 1) \o f[n]

(* update_all_daily_prices: history[a] is what get_price_history_sync      *)
(* answers for asset a (<<>> for None).  db.merge of a DailyReturn without *)
(* a primary key adds a new row, and the one db.commit() of the task       *)
(* inserts the rows and updates the assets, or fails as a whole on the     *)
(* unique constraint.  call keeps, by asset, the last price a task obtained *)
(* and the time it did.                                                    *)
update_all_daily_prices(history) ==
    LET synced == {a \in DOMAIN assets : assets[a].is_active /\ Len(history[a]) > 1}
        latest(a) == history[a][Len(history[a])]
        previous(a) == history[a][Len(history[a]) - 1]
        merged == Concat([a \in DOMAIN assets |->
                             IF a \in synced
                             THEN <<DailyReturn(a, latest(a), previous(a))>>
                             ELSE <<>>], Len(assets))
        updated == [a \in DOMAIN assets |->
                       IF a \in synced
                       THEN update_price_info(assets[a], latest(a).close,
                                              previous(a).close, clock)
                       ELSE assets[a]]
    IN  /\ IF uq_daily_return_asset_date(daily_returns_table \o merged)
           THEN /\ daily_returns_table' = daily_returns_table \o merged
                /\ assets' = [a \in DOMAIN assets |->
                                 Flush(assets[a], assets[a], updated[a])]
                /\ result' = Some([task |-> "update_all_daily_prices", status |-> "ok"])
           ELSE /\ UNCHANGED <<daily_returns_table, assets>>
                /\ result' = Some([task |-> "update_all_daily_prices",
                                   status |-> "IntegrityError"])
       /\ call' = [a \in DOMAIN call \cup synced |->
                      IF a \in synced THEN [price |-> latest(a).close, at |-> clock]
                      ELSE call[a]]
       /\ UNCHANGED <<allocations, sess, clients_table, clock, registry>>

(* one turn of the loop of update_all_realtime_prices on an asset of the   *)
(* session: the asset after it (and after the commit)                      *)
realtime_price_update(asset, yf_data, now) ==
    IF yf_data # None /\ Val(yf_data) # 0 /\ yf_data # asset.current_price
    THEN [asset EXCEPT !.current_price = yf_data, !.last_price_update = Some(now)]
    ELSE asset

(* update_all_realtime_prices over all the active assets: quote[a] is what *)
(* get_current_price_sync answers for asset a; every asset whose price     *)
(* changes is committed and broadcast                                      *)
realtime_prices_task(quote) ==
    LET active == {a \in DOMAIN assets : assets[a].is_active}
        priced == {a \in active : quote[a] # None /\ Val(quote[a]) # 0}
        updated == [a \in DOMAIN assets |->
                       IF a \in active
                       THEN realtime_price_update(assets[a], quote[a], clock)
                       ELSE assets[a]]
        changed == {a \in DOMAIN assets : updated[a] # assets[a]}
        sent[n \in 0..Len(assets)] ==
            IF n = 0 THEN websockets
            ELSE IF n \in changed THEN broadcast(sent[n - 1], active_connections)
            ELSE sent[n - 1]
    IN  /\ assets' = [a \in DOMAIN assets |-> Flush(assets[a], assets[a], updated[a])]
        /\ websockets' = sent[Len(assets)]
        /\ call' = [a \in DOMAIN call \cup priced |->
                       IF a \in priced THEN [price |-> Val(quote[a]), at |-> clock]
                       ELSE call[a]]
        /\ result' = Some([task |-> "update_all_realtime_prices", status |-> "ok"])
        /\ UNCHANGED <<allocations, sess, clients_table, market, active_connections>>

(* POST /assets: yf_data is what get_asset_info_and_price_sync answers and *)
(* history_data what get_price_history_sync answers.  The DailyReturn rows *)
(* are built with asset.id before the asset is flushed, that is with       *)
(* asset_id = None, which the NOT NULL column refuses at the commit: the   *)
(* request is answered 500 and nothing is stored.  There is one ticker: it *)
(* exists when the table has a row.                                        *)
create_asset(yf_data, history_data) ==
    /\ IF Len(assets) > 0 \/ yf_data = None
       THEN /\ result' = Some([task |-> "create_asset", status |-> 400])
            /\ UNCHANGED <<assets, daily_returns_table>>
       ELSE IF history_data # <<>>
       THEN /\ result' = Some([task |-> "create_asset", status |-> 500])
            /\ UNCHANGED <<assets, daily_returns_table>>
       ELSE /\ result' = Some([task |-> "create_asset", status |-> 200])
            /\ assets' = Append(assets,
                   Flush(UnpricedAsset, UnpricedAsset,
                         [UnpricedAsset EXCEPT
                            !.current_price = Some(Val(yf_data).current_price),
                            !.previous_close = Some(Val(yf_data).previous_close),
                            !.daily_change = Some(Val(yf_data).daily_change),
                            !.daily_change_percent = Some(Val(yf_data).daily_change_percent),
                            !.last_price_update = Some(clock)]))
            /\ UNCHANGED daily_returns_table
    /\ UNCHANGED <<allocations, sess, call, clients_table, clock, registry>>

(* twelve hours pass *)
Tick ==
    /\ clock' = clock + 12
    /\ UNCHANGED <<ledger, calc, clients_table, daily_returns_table, registry>>

(***************************************************************************)
(* SpecPrices: registrations, daily and real-time task runs, and time.     *)
(***************************************************************************)
MaxClock == 36

PROVIDER_PRICES == {10, 12}

(* the answers of get_asset_info_and_price_sync: None, or the provider's   *)
(* price, previous close and the change between them                       *)
YF_DATA ==
    {None} \cup
    {Some([current_price |-> p, previous_close |-> q, daily_change |-> p - q,
           daily_change_percent |-> Rat((p - q) * 100, q)]) :
        p \in PROVIDER_PRICES, q \in PROVIDER_PRICES}

(* the answers of get_price_history_sync(period="2d") on a date: nothing,  *)
(* the bar of the date alone, or the bar of the day before and that of the *)
(* date                                                                    *)
HISTORIES(today) ==
    {<<>>} \cup
    {<<[date |-> today, close |-> p]>> : p \in PROVIDER_PRICES} \cup
    {<<[date |-> today - 1, close |-> q], [date |-> today, close |-> p]>> :
        p \in PROVIDER_PRICES, q \in PROVIDER_PRICES}

InitPrices ==
    /\ allocations = <<>>
    /\ assets \in {<<>>, <<UnpricedAsset>>}
    /\ sess = [w \in Workers |-> Idle("none", 0, 0)]
    /\ call = <<>>
    /\ result = None
    /\ InitOthers

NextPrices ==
    \/ \E yf_data \in YF_DATA, history_data \in HISTORIES(clock \div 24) :
           create_asset(yf_data, history_data)
    \/ \E history \in [DOMAIN assets -> HISTORIES(clock \div 24)] :
           update_all_daily_prices(history)
    \/ \E quote \in [DOMAIN assets -> {None} \cup {Some(p) : p \in PROVIDER_PRICES}] :
           realtime_prices_task(quote)
    \/ clock + 12 <= MaxClock /\ Tick

SpecPrices == InitPrices /\ [][NextPrices]_vars

(* C24: the price history holds at most one bar per (asset, date), and no  *)
(* run of the daily task fails: a second sync of an (asset, date) is an    *)
(* upsert.                                                                 *)
C24_OneBarPerAssetDateByUpsert ==
    /\ uq_daily_return_asset_date(daily_returns_table)
    /\ (result # None /\ Val(result).task = "update_all_daily_prices")
           => Val(result).status = "ok"

(* C25: after a refresh in which a task obtained a price for an asset, the *)
(* asset's current_price is that price and its last_price_update the time  *)
(* of the refresh, so within max_age_hours of the refresh the asset is not *)
(* stale.                                                                  *)
C25_RefreshSetsPriceAndStamp ==
    \A a \in DOMAIN call :
        /\ assets[a].current_price = Some(call[a].price)
        /\ assets[a].last_price_update = Some(call[a].at)
        /\ clock - call[a].at <= max_age_hours => ~is_price_stale(assets[a], clock)

(* C26: an asset whose daily_change is set has daily_change =               *)
(* current_price - previous_close and daily_change_percent =               *)
(* daily_change / previous_close * 100 (to the four decimals of its        *)
(* column).                                                                *)
C26_DailyChangeMatchesPrices ==
    \A a \in DOMAIN assets :
        assets[a].daily_change # None =>
            /\ assets[a].current_price # None
            /\ assets[a].previous_close # None
            /\ Val(assets[a].daily_change)
                   = Val(assets[a].current_price) - Val(assets[a].previous_close)
            /\ Val(assets[a].previous_close) > 0
            /\ assets[a].daily_change_percent
                   = Some(Rat(Numeric84(Val(assets[a].daily_change) * 100,
                                        Val(assets[a].previous_close)), 10000))

(***************************************************************************)
(* Clients: DELETE /clients/{client_id} (a soft delete) beside the         *)
(* allocation handlers.                                                    *)
(***************************************************************************)

(* Allocation.days_held at time now *)
days_held(self, now) ==
    IF self.is_active THEN now - self.purchase_date
    ELSE IF self.exit_date # None THEN Val(self.exit_date) - self.purchase_date
    ELSE 0

(* DELETE /clients/{client_id} *)
delete_client(w, client_id) ==
    /\ sess[w].pc = "idle"
    /\ UNCHANGED <<allocations, assets, calc, market, registry>>
    /\ IF client_id \notin DOMAIN clients_table
       THEN /\ sess' = [sess EXCEPT ![w] = Idle("delete_client", client_id, 404)]
            /\ UNCHANGED clients_table
       ELSE IF \E i \in 1..Len(allocations) :
                   allocations[i].client_id = client_id /\ allocations[i].is_active
       THEN /\ sess' = [sess EXCEPT ![w] = Idle("delete_client", client_id, 400)]
            /\ UNCHANGED clients_table
       ELSE /\ clients_table' = [clients_table EXCEPT ![client_id].is_active = FALSE]
            /\ sess' = [sess EXCEPT ![w] = Idle("delete_client", client_id, 200)]

(***************************************************************************)
(* SpecClients: create, close and delete-client requests of two workers.   *)
(***************************************************************************)

(* a close without a date, one dated later than the purchases (day 31) and *)
(* one dated earlier                                                       *)
ClientCloseInputs ==
    { [exit_price |-> 2500, exit_date |-> None, exit_fees |-> 0],
      [exit_price |-> 2500, exit_date |-> Some(36), exit_fees |-> 0],
      [exit_price |-> 2500, exit_date |-> Some(30), exit_fees |-> 0] }

NextClients ==
    \/ \E w \in Workers, data \in CreateInputs :
           Len(allocations) < MaxRows /\ create_allocation(w, data)
    \/ \E w \in Workers, id \in 1..MaxRows, req \in ClientCloseInputs :
           close_allocation(w, id, req, 32)
    \/ \E w \in Workers : db_commit(w)
    \/ \E w \in Workers, client_id \in 1..(Len(clients_table) + 1) :
           delete_client(w, client_id)

SpecClients == Init /\ [][NextClients]_vars

(* C27: a client with is_active = false has only closed allocations.       *)
C27_InactiveClientHasNoOpenPosition ==
    \A c \in DOMAIN clients_table :
        ~clients_table[c].is_active =>
            \A r \in Rows : r.client_id = c => ~r.is_active

(* C28: a closed allocation has exit_date >= purchase_date, and its        *)
(* days_held is not negative.                                              *)
C28_ExitNotBeforePurchase ==
    \A r \in Rows :
        (~r.is_active /\ r.exit_date # None) =>
            /\ Val(r.exit_date) >= r.purchase_date
            /\ days_held(r, 32) >= 0

====
